---- MODULE Spec2Model ----
(***************************************************************************)
(* Seelen-UI: the background event window (event_window.rs) and the hook   *)
(* library (hook/lib.rs).                                                  *)
(*                                                                         *)
(* Spec      the event window service: one calling thread that runs        *)
(*           create_background_window, the "Background Window" threads it  *)
(*           spawns (_create_background_window and window_proc), threads   *)
(*           calling subscribe_to_background_window, and the senders that  *)
(*           post messages to the windows.                                 *)
(* FairSpec  Spec with fewer subscribers and messages, and weak fairness   *)
(*           of every thread's steps.                                      *)
(* HookSpec  the hook library: DllMain, install_hook and the three hook    *)
(*           callbacks.                                                    *)
(*                                                                         *)
(* Operating-system calls are the environment: each one that can fail      *)
(* draws its outcome with \E.  window_proc is entered from                 *)
(* DispatchMessageW; GetMessageW hands out the posted messages in order    *)
(* and reports WM_QUIT (FALSE) once PostQuitMessage was called and the     *)
(* queue is empty.                                                         *)
(***************************************************************************)
EXTENDS Integers, Sequences, FiniteSets, TLC

\* ---- bounds -------------------------------------------------------------
MaxStarts == 2          \* calls of create_background_window
MaxSubs   == 2          \* calls of subscribe_to_background_window
MaxPosts  == 2          \* messages posted to the windows, in total
FairSubs  == 1          \* subscribe calls in FairSpec
FairPosts == 1          \* messages posted in FairSpec
MaxInstalls == 2        \* calls of install_hook
MaxAttach == 2          \* DllMain notifications

\* ---- program constants ---------------------------------------------------
WM_DESTROY == 2
NoHwnd == 0             \* AtomicIsize::new(0)
WH_GETMESSAGE == 3
WH_CALLWNDPROC == 4
WH_CALLWNDPROCRET == 12
DLL_PROCESS_DETACH == 0
DLL_PROCESS_ATTACH == 1
DLL_THREAD_ATTACH == 2
DLL_THREAD_DETACH == 3
BOOL_TRUE == 1           \* windows::Win32::Foundation::TRUE
NullPtr == 0

Pumps == 1..MaxStarts

\* a callback returns Ok(()), returns Err, or calls
\* subscribe_to_background_window itself
Kinds == {"ok", "err", "resub"}

\* MSG: message id, wParam, lParam
MsgDestroy == [message |-> WM_DESTROY, wParam |-> 0, lParam |-> 0]
MsgOther   == [message |-> 42, wParam |-> 7, lParam |-> 9]
Msgs == {MsgDestroy, MsgOther}
MsgDefault == [message |-> 0, wParam |-> 0, lParam |-> 0]

\* the handle CreateWindowExW returns for the window of pump p
HwndOf(p) == 100 + p

\* no hook callback has run yet
NoCall ==
  [hook |-> "none", n_code |-> 0, w_param |-> 0, l_param |-> 0, derefs |-> 0,
   queries |-> 0, printed |-> <<>>, next |-> <<>>,
   outcome |-> [kind |-> "none", value |-> 0]]

VARIABLES
  CALLBACKS,        \* Vec<Callback>: the behaviour of each registered callback
  lockHolder,       \* the thread holding the CALLBACKS mutex, 0 if free
  BACKGROUND_HWND,  \* AtomicIsize
  classRegistered,  \* the window class "SeelenUIShell" exists in the process
  callerPc,         \* the thread calling create_background_window
  calls,            \* number of create_background_window calls so far
  pc,               \* position of each "Background Window" thread
  atom,             \* what RegisterClassW returned (discarded by the code)
  hwnd,             \* local hwnd of _create_background_window
  notified,         \* RegisterDeviceNotificationW succeeded
  signalled,        \* done.send(()) was executed
  chan,             \* number of values buffered in the bounded(1) channel
  queue,            \* messages posted to the thread's window
  quit,             \* PostQuitMessage was called on the thread
  msg,              \* local msg of the loop
  idx,              \* position of window_proc's iteration over CALLBACKS
  invoked,          \* callbacks invoked by the dispatch in progress
  posts,            \* messages posted so far
  WIN_PROC_HOOK, WIN_PROC_RET_HOOK, GET_MESSAGE_HOOK, DLL_HANDLE,
  hooks,            \* hooks installed in the operating system, in order
  attempts,         \* SetWindowsHookExW calls of the last install_hook
  ret,              \* what the last install_hook returned
  installs, attaches,
  call,             \* the last invocation of a hook callback
  dllRet            \* what the last DllMain returned, 0 before the first

ewVars == <<CALLBACKS, lockHolder, BACKGROUND_HWND, classRegistered, callerPc,
            calls, pc, atom, hwnd, notified, signalled, chan, queue, quit, msg, idx,
            invoked, posts>>
hookVars == <<WIN_PROC_HOOK, WIN_PROC_RET_HOOK, GET_MESSAGE_HOOK, DLL_HANDLE,
              hooks, attempts, ret, installs, attaches, call, dllRet>>
vars == <<ewVars, hookVars>>

pumpVars == <<pc, atom, hwnd, notified, signalled, chan, queue, quit, msg, idx, invoked>>

Init ==
  /\ CALLBACKS = <<>>
  /\ lockHolder = 0
  /\ BACKGROUND_HWND = NoHwnd
  /\ classRegistered = FALSE
  /\ callerPc = "idle"
  /\ calls = 0
  /\ pc = [p \in Pumps |-> "unborn"]
  /\ atom = [p \in Pumps |-> 0]
  /\ hwnd = [p \in Pumps |-> 0]
  /\ notified = [p \in Pumps |-> FALSE]
  /\ signalled = [p \in Pumps |-> FALSE]
  /\ chan = [p \in Pumps |-> 0]
  /\ queue = [p \in Pumps |-> <<>>]
  /\ quit = [p \in Pumps |-> FALSE]
  /\ msg = [p \in Pumps |-> MsgDefault]
  /\ idx = [p \in Pumps |-> 0]
  /\ invoked = [p \in Pumps |-> <<>>]
  /\ posts = 0
  /\ WIN_PROC_HOOK = 0
  /\ WIN_PROC_RET_HOOK = 0
  /\ GET_MESSAGE_HOOK = 0
  /\ DLL_HANDLE = 0
  /\ hooks = <<>>
  /\ attempts = <<>>
  /\ ret = "none"
  /\ installs = 0
  /\ attaches = 0
  /\ call = NoCall
  /\ dllRet = 0

\* ---- subscribe_to_background_window --------------------------------------

\* a lock that is handed out while it is held
CanLock_Always(holder) == TRUE

\* parking_lot::Mutex::lock returns only when nobody holds the mutex
CanLock(holder) == holder = 0

\* a push at the front of the list
Pushed_Front(list, kind) == <<kind>> \o list

\* trace_lock!(CALLBACKS).push(Box::new(callback)): lock, push, unlock, by a
\* thread that is not inside window_proc
Pushed(list, kind) == Append(list, kind)

Subscribe(kind) ==
  /\ CanLock(lockHolder)
  /\ Len(CALLBACKS) < MaxSubs
  /\ CALLBACKS' = Pushed(CALLBACKS, kind)
  /\ UNCHANGED <<lockHolder, BACKGROUND_HWND, classRegistered, callerPc, calls,
                 pumpVars, posts, hookVars>>

\* ---- create_background_window ---------------------------------------------

\* a sender that outlives the thread closure
SenderDropped_Never(p) == FALSE

\* the thread closure has ended: tx is dropped
Ended == {"failed", "returned", "nospawn"}
SenderDropped(p) == pc[p] \in Ended

\* recv that does not wait for a value
RecvReady_Always(p) == TRUE

\* rx.recv() has a value to take
RecvReady(p) == chan[p] > 0

\* both spawn_named_thread calls, up to rx.recv()
CreateBackgroundWindow ==
  /\ callerPc \in {"idle", "ok", "err"}
  /\ calls < MaxStarts
  /\ calls' = calls + 1
  /\ \E spawned \in BOOLEAN :
       IF spawned
         THEN /\ pc' = [pc EXCEPT ![calls + 1] = "regclass"]
              /\ callerPc' = "waiting"
         ELSE /\ pc' = [pc EXCEPT ![calls + 1] = "nospawn"]
              /\ callerPc' = "err"
  /\ UNCHANGED <<CALLBACKS, lockHolder, BACKGROUND_HWND, classRegistered, atom,
                 hwnd, notified, signalled, chan, queue, quit, msg, idx, invoked, posts,
                 hookVars>>

\* rx.recv()?: Ok when a value is buffered, Err when the channel is empty and
\* the sender is gone
Recv ==
  /\ callerPc = "waiting"
  /\ \/ /\ RecvReady(calls)
        /\ chan' = [chan EXCEPT ![calls] = 0]
        /\ callerPc' = "ok"
     \/ /\ ~RecvReady(calls)
        /\ SenderDropped(calls)
        /\ callerPc' = "err"
        /\ UNCHANGED chan
  /\ UNCHANGED <<CALLBACKS, lockHolder, BACKGROUND_HWND, classRegistered, calls,
                 pc, atom, hwnd, notified, signalled, queue, quit, msg, idx, invoked,
                 posts, hookVars>>

\* ---- _create_background_window: setup -------------------------------------

\* the thread closure ends: its locals are gone, and so are its window and the
\* messages queued for it
Exit(p, how) ==
  /\ pc' = [pc EXCEPT ![p] = how]
  /\ queue' = [queue EXCEPT ![p] = <<>>]
  /\ msg' = [msg EXCEPT ![p] = MsgDefault]

\* a thread that publishes without creating the window
AfterRegisterClass_SkipCreate(r) == "store"

\* where the thread goes after RegisterClassW returned r: the result is not
\* looked at
AfterRegisterClass(r) == "create"

\* WindowsApi::module_handle_w()? and RegisterClassW(&wnd_class), which fails
\* when the class exists already, and may fail otherwise
RegisterClass(p) ==
  /\ pc[p] = "regclass"
  /\ \/ /\ Exit(p, "failed")
        /\ UNCHANGED <<atom, classRegistered>>
     \/ /\ \E r \in (IF classRegistered THEN {0} ELSE {0, 1}) :
             /\ atom' = [atom EXCEPT ![p] = r]
             /\ classRegistered' = (classRegistered \/ r # 0)
             /\ pc' = [pc EXCEPT ![p] = AfterRegisterClass(r)]
        /\ UNCHANGED <<queue, msg>>
  /\ UNCHANGED <<CALLBACKS, lockHolder, BACKGROUND_HWND, callerPc, calls, hwnd,
                 notified, signalled, chan, quit, idx, invoked, posts, hookVars>>

\* CreateWindowExW(..)?: needs the class
CreateWindow(p) ==
  /\ pc[p] = "create"
  /\ \E ok \in (IF classRegistered THEN BOOLEAN ELSE {FALSE}) :
       IF ok
         THEN /\ hwnd' = [hwnd EXCEPT ![p] = HwndOf(p)]
              /\ pc' = [pc EXCEPT ![p] = "store"]
              /\ UNCHANGED <<queue, msg>>
         ELSE /\ Exit(p, "failed")
              /\ UNCHANGED hwnd
  /\ UNCHANGED <<CALLBACKS, lockHolder, BACKGROUND_HWND, classRegistered, callerPc,
                 calls, atom, notified, signalled, chan, quit, idx, invoked, posts, hookVars>>

\* BACKGROUND_HWND.store(handle, Ordering::Relaxed)
StoreHandle(p) ==
  /\ pc[p] = "store"
  /\ BACKGROUND_HWND' = hwnd[p]
  /\ pc' = [pc EXCEPT ![p] = "regdev"]
  /\ UNCHANGED <<CALLBACKS, lockHolder, classRegistered, callerPc, calls, atom,
                 hwnd, notified, signalled, chan, queue, quit, msg, idx, invoked, posts,
                 hookVars>>

\* RegisterDeviceNotificationW(..)?
RegisterDeviceNotification(p) ==
  /\ pc[p] = "regdev"
  /\ \E ok \in BOOLEAN :
       IF ok
         THEN /\ pc' = [pc EXCEPT ![p] = "send"]
              /\ notified' = [notified EXCEPT ![p] = TRUE]
              /\ UNCHANGED <<queue, msg>>
         ELSE /\ Exit(p, "failed")
              /\ UNCHANGED notified
  /\ UNCHANGED <<CALLBACKS, lockHolder, BACKGROUND_HWND, classRegistered, callerPc,
                 calls, atom, hwnd, signalled, chan, quit, idx, invoked, posts,
                 hookVars>>

\* done.send(())?: the receiver is alive, the caller is inside rx.recv()
SendDone(p) ==
  /\ pc[p] = "send"
  /\ chan' = [chan EXCEPT ![p] = chan[p] + 1]
  /\ signalled' = [signalled EXCEPT ![p] = TRUE]
  /\ pc' = [pc EXCEPT ![p] = "get"]
  /\ UNCHANGED <<CALLBACKS, lockHolder, BACKGROUND_HWND, classRegistered, callerPc,
                 calls, atom, hwnd, notified, queue, quit, msg, idx, invoked,
                 posts, hookVars>>

\* ---- _create_background_window: the loop ----------------------------------

\* GetMessageW(&mut msg, Some(hwnd), 0, 0): the next posted message, or FALSE
\* for WM_QUIT when nothing is queued; then Ok(())
GetMessage(p) ==
  /\ pc[p] = "get"
  /\ \/ /\ queue[p] # <<>>
        /\ msg' = [msg EXCEPT ![p] = Head(queue[p])]
        /\ queue' = [queue EXCEPT ![p] = Tail(queue[p])]
        /\ pc' = [pc EXCEPT ![p] = "translate"]
     \/ /\ queue[p] = <<>>
        /\ quit[p]
        /\ Exit(p, "returned")
  /\ UNCHANGED <<CALLBACKS, lockHolder, BACKGROUND_HWND, classRegistered, callerPc,
                 calls, atom, hwnd, notified, signalled, chan, quit, idx, invoked, posts,
                 hookVars>>

\* ---- window_proc ----------------------------------------------------------

\* window_proc without the WM_DESTROY branch
IsDestroy_Never(m) == FALSE

\* if msg == WM_DESTROY { PostQuitMessage(0); return LRESULT(0); }
IsDestroy(m) == m.message = WM_DESTROY

\* TranslateMessage(&msg).ok().filter_fake_error()?, then DispatchMessageW(&msg)
\* enters window_proc.  msg is not read again before GetMessageW writes it.
Dispatch(p) ==
  /\ pc[p] = "translate"
  /\ \/ /\ Exit(p, "failed")
        /\ UNCHANGED quit
     \/ /\ IsDestroy(msg[p])
        /\ quit' = [quit EXCEPT ![p] = TRUE]
        /\ pc' = [pc EXCEPT ![p] = "get"]
        /\ msg' = [msg EXCEPT ![p] = MsgDefault]
        /\ UNCHANGED queue
     \/ /\ ~IsDestroy(msg[p])
        /\ pc' = [pc EXCEPT ![p] = "lock"]
        /\ UNCHANGED <<quit, queue, msg>>
  /\ UNCHANGED <<CALLBACKS, lockHolder, BACKGROUND_HWND, classRegistered, callerPc,
                 calls, atom, hwnd, notified, signalled, chan, idx, invoked, posts, hookVars>>

\* CALLBACKS.lock()
WindowProcLock(p) ==
  /\ pc[p] = "lock"
  /\ CanLock(lockHolder)
  /\ lockHolder' = p
  /\ idx' = [idx EXCEPT ![p] = 1]
  /\ pc' = [pc EXCEPT ![p] = "iter"]
  /\ UNCHANGED <<CALLBACKS, BACKGROUND_HWND, classRegistered, callerPc, calls, atom,
                 hwnd, notified, signalled, chan, queue, quit, msg, invoked, posts, hookVars>>

\* the two parameters in the wrong order
CallArgs_Swapped(m) == <<m.message, m.lParam, m.wParam>>

\* callback(msg, w_param.0, l_param.0)
CallArgs(m) == <<m.message, m.wParam, m.lParam>>

\* the iteration stops at the first callback that returns Err
NextIdx_StopOnErr(kind, i, n) == IF kind = "err" THEN n + 1 ELSE i + 1

\* log_error!(..): the iteration goes on to the next callback whatever the
\* callback returned
NextIdx(kind, i, n) == i + 1

\* one turn of `for callback in CALLBACKS.lock().iter()`
WindowProcCall(p) ==
  /\ pc[p] = "iter"
  /\ idx[p] <= Len(CALLBACKS)
  /\ invoked' = [invoked EXCEPT ![p] =
                   Append(@, [cb |-> idx[p], args |-> CallArgs(msg[p])])]
  /\ IF CALLBACKS[idx[p]] = "resub"
       THEN \* the callback waits for the mutex its own thread holds
            /\ pc' = [pc EXCEPT ![p] = "blocked"]
            /\ UNCHANGED idx
       ELSE /\ idx' = [idx EXCEPT ![p] = NextIdx(CALLBACKS[idx[p]], idx[p], Len(CALLBACKS))]
            /\ UNCHANGED pc
  /\ UNCHANGED <<CALLBACKS, lockHolder, BACKGROUND_HWND, classRegistered, callerPc,
                 calls, atom, hwnd, notified, signalled, chan, queue, quit, msg, posts,
                 hookVars>>

\* the iteration is over: the guard is dropped, then
\* DefWindowProcW(hwnd, msg, w_param, l_param) and back to the loop
WindowProcReturn(p) ==
  /\ pc[p] = "iter"
  /\ idx[p] > Len(CALLBACKS)
  /\ lockHolder' = 0
  /\ pc' = [pc EXCEPT ![p] = "get"]
  /\ idx' = [idx EXCEPT ![p] = 0]
  /\ invoked' = [invoked EXCEPT ![p] = <<>>]
  /\ msg' = [msg EXCEPT ![p] = MsgDefault]
  /\ UNCHANGED <<CALLBACKS, BACKGROUND_HWND, classRegistered, callerPc, calls, atom,
                 hwnd, notified, signalled, chan, queue, quit, posts, hookVars>>

\* ---- the senders ----------------------------------------------------------

\* some thread posts m to the window of pump p
PostMessage(p, m) ==
  /\ hwnd[p] # 0
  /\ pc[p] \notin Ended
  /\ posts < MaxPosts
  /\ posts' = posts + 1
  /\ queue' = [queue EXCEPT ![p] = Append(@, m)]
  /\ UNCHANGED <<CALLBACKS, lockHolder, BACKGROUND_HWND, classRegistered, callerPc,
                 calls, pc, atom, hwnd, notified, signalled, chan, quit, msg, idx, invoked,
                 hookVars>>

\* ---- the event window service ---------------------------------------------

PumpStep(p) ==
  \/ RegisterClass(p)
  \/ CreateWindow(p)
  \/ StoreHandle(p)
  \/ RegisterDeviceNotification(p)
  \/ SendDone(p)
  \/ GetMessage(p)
  \/ Dispatch(p)
  \/ WindowProcLock(p)
  \/ WindowProcCall(p)
  \/ WindowProcReturn(p)

Next ==
  \/ \E kind \in Kinds : Subscribe(kind)
  \/ CreateBackgroundWindow
  \/ Recv
  \/ \E p \in Pumps : PumpStep(p)
  \/ \E p \in Pumps, m \in Msgs : PostMessage(p, m)

Spec == Init /\ [][Next]_vars

\* the service with a smaller environment and fair threads: a thread that can
\* take a step takes one, and so does a caller whose recv can return
FairNext ==
  /\ Next
  /\ Len(CALLBACKS') <= FairSubs
  /\ posts' <= FairPosts

FairSpec ==
  /\ Init
  /\ [][FairNext]_vars
  /\ WF_vars(Recv)
  /\ \A p \in Pumps : WF_vars(PumpStep(p))

\* ---- hook library: install_hook -------------------------------------------

ThreadIds == {7, 8}
ModuleHandles == {500, 501}
Reasons == {DLL_PROCESS_DETACH, DLL_PROCESS_ATTACH, DLL_THREAD_ATTACH,
            DLL_THREAD_DETACH, 9}

\* the handle SetWindowsHookExW returns for the n-th hook of the process
HookHandle(n) == 200 + n

\* the message-retrieval hook installed before the post-call hook
InstallSteps_Reordered ==
  << [id |-> WH_CALLWNDPROC,    proc |-> "win_proc_hook"],
     [id |-> WH_GETMESSAGE,     proc |-> "get_message_hook"],
     [id |-> WH_CALLWNDPROCRET, proc |-> "win_proc_ret_hook"] >>

\* the three SetWindowsHookExW calls of install_hook, in program order
InstallSteps ==
  << [id |-> WH_CALLWNDPROC,    proc |-> "win_proc_hook"],
     [id |-> WH_CALLWNDPROCRET, proc |-> "win_proc_ret_hook"],
     [id |-> WH_GETMESSAGE,     proc |-> "get_message_hook"] >>

\* a failed step that clears its slot
SlotAfter_ClearOnFail(slot, reached, ok, h) ==
  IF reached THEN (IF ok THEN h ELSE 0) ELSE slot

\* X_HOOK = match SetWindowsHookExW(..) { Ok(hook) => Some(hook),
\*                                        Err(err) => { ..; return false; } }
\* the slot is assigned only when the step is reached and succeeds
SlotAfter(slot, reached, ok, h) ==
  IF reached /\ ok THEN h ELSE slot

\* install_hook(thread_id); failAt is the first SetWindowsHookExW call that
\* returns Err, 0 if none does
InstallHook(thread_id, failAt) ==
  /\ installs < MaxInstalls
  /\ installs' = installs + 1
  /\ LET ok1 == failAt # 1
         reached2 == ok1
         ok2 == reached2 /\ failAt # 2
         reached3 == ok2
         ok3 == reached3 /\ failAt # 3
         n == Len(hooks)
         h1 == HookHandle(n + 1)
         h2 == HookHandle(n + 2)
         h3 == HookHandle(n + 3)
         entry(i, h) == [id |-> InstallSteps[i].id, proc |-> InstallSteps[i].proc,
                         hmod |-> DLL_HANDLE, thread |-> thread_id, handle |-> h]
     IN /\ WIN_PROC_HOOK' = SlotAfter(WIN_PROC_HOOK, TRUE, ok1, h1)
        /\ WIN_PROC_RET_HOOK' = SlotAfter(WIN_PROC_RET_HOOK, reached2, ok2, h2)
        /\ GET_MESSAGE_HOOK' = SlotAfter(GET_MESSAGE_HOOK, reached3, ok3, h3)
        /\ hooks' = hooks \o (IF ok1 THEN <<entry(1, h1)>> ELSE <<>>)
                          \o (IF ok2 THEN <<entry(2, h2)>> ELSE <<>>)
                          \o (IF ok3 THEN <<entry(3, h3)>> ELSE <<>>)
        /\ attempts' = <<InstallSteps[1].id>>
                          \o (IF reached2 THEN <<InstallSteps[2].id>> ELSE <<>>)
                          \o (IF reached3 THEN <<InstallSteps[3].id>> ELSE <<>>)
        /\ ret' = ok3
  /\ UNCHANGED <<DLL_HANDLE, attaches, call, dllRet, ewVars>>

\* ---- hook library: DllMain ------------------------------------------------

\* a detach that forgets the handle
HandleAfter_ClearOnDetach(old, dll_handle, reason) ==
  IF reason = DLL_PROCESS_ATTACH THEN dll_handle
  ELSE IF reason = DLL_PROCESS_DETACH THEN 0 ELSE old

\* match reason { DLL_PROCESS_ATTACH => DLL_HANDLE = Some(dll_handle), .. }
HandleAfter(old, dll_handle, reason) ==
  IF reason = DLL_PROCESS_ATTACH THEN dll_handle ELSE old

DllMain(dll_handle, reason) ==
  /\ attaches < MaxAttach
  /\ attaches' = attaches + 1
  /\ DLL_HANDLE' = HandleAfter(DLL_HANDLE, dll_handle, reason)
  /\ dllRet' = BOOL_TRUE
  /\ UNCHANGED <<WIN_PROC_HOOK, WIN_PROC_RET_HOOK, GET_MESSAGE_HOOK, hooks,
                 attempts, ret, installs, call, ewVars>>

\* ---- hook library: the hook callbacks --------------------------------------

\* the payload pointers the callbacks are handed: null, or the address of a
\* CWPSTRUCT / CWPRETSTRUCT / MSG whose hwnd is 300
Pointers == {NullPtr, 64}
Payload(ptr) == [hwnd |-> 300]

\* get_class(hwnd): GetClassNameW, then from_utf16_lossy
GetClass(h) == "Shell_TrayWnd"

NCodes == {-1, 0}
WParams == {5}
LResults == {0, 1}

\* a callback that looks at every call
Filtered_Never(n_code) == FALSE

\* if n_code < 0 { return CallNextHookEx(None, n_code, w_param, l_param); }
Filtered(n_code) == n_code < 0

\* CallNextHookEx(None, n_code, w_param, l_param) returning r, straight away
Forwarded(hook, n_code, w_param, l_param, r) ==
  [hook |-> hook, n_code |-> n_code, w_param |-> w_param, l_param |-> l_param,
   derefs |-> 0, queries |-> 0, printed |-> <<>>,
   next |-> << <<n_code, w_param, l_param>> >>,
   outcome |-> [kind |-> "returned", value |-> r]]

\* println!(..data.hwnd.., get_class(data.hwnd)), then CallNextHookEx
Observed(hook, n_code, w_param, l_param, r) ==
  [hook |-> hook, n_code |-> n_code, w_param |-> w_param, l_param |-> l_param,
   derefs |-> 1, queries |-> 1,
   printed |-> << [hook |-> hook, hwnd |-> Payload(l_param).hwnd,
                   class |-> GetClass(Payload(l_param).hwnd)] >>,
   next |-> << <<n_code, w_param, l_param>> >>,
   outcome |-> [kind |-> "returned", value |-> r]]

\* Option::unwrap() on None
Panicked(hook, n_code, w_param, l_param) ==
  [hook |-> hook, n_code |-> n_code, w_param |-> w_param, l_param |-> l_param,
   derefs |-> 0, queries |-> 0, printed |-> <<>>, next |-> <<>>,
   outcome |-> [kind |-> "panic", value |-> 0]]

\* win_proc_hook and win_proc_ret_hook: `if let Some(data) = data`
WinProcHookBody(hook, n_code, w_param, l_param, r) ==
  IF Filtered(n_code) THEN Forwarded(hook, n_code, w_param, l_param, r)
  ELSE IF l_param = NullPtr THEN Forwarded(hook, n_code, w_param, l_param, r)
  ELSE Observed(hook, n_code, w_param, l_param, r)

\* get_message_hook: `(l_param.0 as *const MSG).as_ref().unwrap()`
GetMessageHookBody(hook, n_code, w_param, l_param, r) ==
  IF Filtered(n_code) THEN Forwarded(hook, n_code, w_param, l_param, r)
  ELSE IF l_param = NullPtr THEN Panicked(hook, n_code, w_param, l_param)
  ELSE Observed(hook, n_code, w_param, l_param, r)

\* r is what CallNextHookEx returns
WinProcHook(n_code, w_param, l_param, r) ==
  /\ call' = WinProcHookBody("win_proc_hook", n_code, w_param, l_param, r)
  /\ UNCHANGED <<WIN_PROC_HOOK, WIN_PROC_RET_HOOK, GET_MESSAGE_HOOK, DLL_HANDLE,
                 hooks, attempts, ret, installs, attaches, dllRet, ewVars>>

WinProcRetHook(n_code, w_param, l_param, r) ==
  /\ call' = WinProcHookBody("win_proc_ret_hook", n_code, w_param, l_param, r)
  /\ UNCHANGED <<WIN_PROC_HOOK, WIN_PROC_RET_HOOK, GET_MESSAGE_HOOK, DLL_HANDLE,
                 hooks, attempts, ret, installs, attaches, dllRet, ewVars>>

GetMessageHook(n_code, w_param, l_param, r) ==
  /\ call' = GetMessageHookBody("get_message_hook", n_code, w_param, l_param, r)
  /\ UNCHANGED <<WIN_PROC_HOOK, WIN_PROC_RET_HOOK, GET_MESSAGE_HOOK, DLL_HANDLE,
                 hooks, attempts, ret, installs, attaches, dllRet, ewVars>>

HookNext ==
  \/ \E t \in ThreadIds, failAt \in 0..3 : InstallHook(t, failAt)
  \/ \E h \in ModuleHandles, r \in Reasons : DllMain(h, r)
  \/ \E n \in NCodes, w \in WParams, l \in Pointers, r \in LResults :
       \/ WinProcHook(n, w, l, r)
       \/ WinProcRetHook(n, w, l, r)
       \/ GetMessageHook(n, w, l, r)

HookSpec == Init /\ [][HookNext]_vars

\* ---- properties -----------------------------------------------------------

\* what a dispatch of m to the callbacks of list has to invoke
Expected(list, m) ==
  [i \in 1..Len(list) |-> [cb |-> i, args |-> <<m.message, m.wParam, m.lParam>>]]

\* window_proc has gone through the whole list
IterationOver(p) == pc[p] = "iter" /\ idx[p] > Len(CALLBACKS)

\* C1: when window_proc has finished iterating for a non-destroy message
\* (msg, a, b), the callbacks it invoked are exactly the registered ones, each
\* once, in registration order, each with the arguments (msg, a, b).
C1_DispatchInOrder ==
  \A p \in Pumps :
    IterationOver(p) => invoked[p] = Expected(CALLBACKS, msg[p])

C1_Witness ==
  \E p \in Pumps :
    /\ IterationOver(p)
    /\ Len(CALLBACKS) = 2
    /\ Len(invoked[p]) = 2
    /\ invoked[p][2].args = <<42, 7, 9>>

\* C2: a callback that returns Err is followed by the next callback (the
\* iteration neither stops nor loses the lock), and a dispatch leaves the
\* iteration only with every callback invoked and with the thread back in
\* its loop, never ended.
C2_ErrStep(p) ==
  (/\ pc[p] = "iter"
   /\ idx[p] <= Len(CALLBACKS)
   /\ CALLBACKS[idx[p]] = "err"
   /\ invoked'[p] # invoked[p])
  => /\ pc'[p] = "iter"
     /\ idx'[p] = idx[p] + 1
     /\ lockHolder' = p
     /\ CALLBACKS' = CALLBACKS

C2_DoneStep(p) ==
  (pc[p] = "iter" /\ pc'[p] \notin {"iter", "blocked"})
  => /\ invoked[p] = Expected(CALLBACKS, msg[p])
     /\ pc'[p] = "get"

C2_FailureIsolation ==
  [][\A p \in Pumps : C2_ErrStep(p) /\ C2_DoneStep(p)]_vars

C2_Witness ==
  \E p \in Pumps :
    /\ IterationOver(p)
    /\ Len(CALLBACKS) = 2
    /\ CALLBACKS[1] = "err"
    /\ Len(invoked[p]) = 2

\* C3 (as claimed): BACKGROUND_HWND is non-zero only when a readiness signal
\* has been sent.
C3_ReadyOnlyAfterSignal ==
  BACKGROUND_HWND # NoHwnd => \E p \in Pumps : signalled[p]

\* C4: when create_background_window has returned Ok, the thread it spawned
\* has sent the signal, its window exists, BACKGROUND_HWND holds that
\* window's non-zero handle and the device notification is registered.
C4_OkMeansReady ==
  callerPc = "ok" =>
    /\ signalled[calls]
    /\ hwnd[calls] # 0
    /\ BACKGROUND_HWND = hwnd[calls]
    /\ BACKGROUND_HWND # NoHwnd
    /\ notified[calls]

C4_Witness ==
  /\ callerPc = "ok"
  /\ calls = 2
  /\ BACKGROUND_HWND = HwndOf(2)

\* C5 (as claimed): once BACKGROUND_HWND is non-zero it keeps its value, and
\* at most one window is ever created.
C5_WrittenOnce ==
  [][/\ BACKGROUND_HWND # NoHwnd => BACKGROUND_HWND' = BACKGROUND_HWND
     /\ Cardinality({p \in Pumps : hwnd'[p] # 0}) <= 1]_vars

\* C6 (as claimed): once window_proc has processed WM_DESTROY on a thread, no
\* callback is invoked on that thread any more.
C6_NoDispatchAfterDestroy ==
  [][\A p \in Pumps : quit[p] => Len(invoked'[p]) <= Len(invoked[p])]_vars

\* C7: window_proc never takes the CALLBACKS lock for WM_DESTROY and no
\* callback is ever invoked with the message id WM_DESTROY.
C7_DestroyNotDelivered ==
  \A p \in Pumps :
    /\ pc[p] \in {"lock", "iter", "blocked"} => msg[p].message # WM_DESTROY
    /\ lockHolder = p => msg[p].message # WM_DESTROY
    /\ \A i \in 1..Len(invoked[p]) : invoked[p][i].args[1] # WM_DESTROY

C7_Witness ==
  \E p \in Pumps :
    /\ quit[p]
    /\ pc[p] = "get"
    /\ Len(CALLBACKS) >= 1
    /\ invoked[p] = <<>>
    /\ lockHolder = 0

\* C8 (as claimed): create_background_window returns Ok only if none of
\* RegisterClassW, CreateWindowExW and RegisterDeviceNotificationW failed.
C8_ErrOnAnySetupFailure ==
  callerPc = "ok" =>
    /\ atom[calls] # 0
    /\ hwnd[calls] # 0
    /\ notified[calls]

\* C9: a caller waiting in rx.recv() always gets out of it; it gets Ok only
\* if the signal was sent, and Err only if the thread ended without sending
\* it.
C9_RecvReturns ==
  /\ (callerPc = "waiting") ~> (callerPc \in {"ok", "err"})
  /\ [](callerPc = "ok" => signalled[calls])
  /\ []((callerPc = "err" /\ pc[calls] # "nospawn")
          => (~signalled[calls] /\ pc[calls] = "failed"))

C9_Witness ==
  /\ callerPc = "err"
  /\ pc[calls] = "failed"
  /\ ~signalled[calls]
  /\ hwnd[calls] # 0

\* C10: when a call of install_hook fails first at step k, the calls made
\* are those of steps 1..k in order, the hooks of steps 1..k-1 are installed
\* on top of the ones that were there and their handles are stored, the
\* slots of steps k..3 keep their values and the call returns false.
C10_Slots(i) ==
  IF i = 1 THEN WIN_PROC_HOOK ELSE IF i = 2 THEN WIN_PROC_RET_HOOK ELSE GET_MESSAGE_HOOK

C10_SlotsAfter(i) ==
  IF i = 1 THEN WIN_PROC_HOOK' ELSE IF i = 2 THEN WIN_PROC_RET_HOOK' ELSE GET_MESSAGE_HOOK'

C10_StepOrder == <<WH_CALLWNDPROC, WH_CALLWNDPROCRET, WH_GETMESSAGE>>

C10_PartialInstall ==
  [][(installs' = installs + 1 /\ Len(hooks') < Len(hooks) + 3) =>
       LET k == Len(attempts') IN
         /\ k \in 1..3
         /\ attempts' = SubSeq(C10_StepOrder, 1, k)
         /\ Len(hooks') = Len(hooks) + k - 1
         /\ SubSeq(hooks', 1, Len(hooks)) = hooks
         /\ \A i \in 1..(k - 1) :
              /\ hooks'[Len(hooks) + i].id = C10_StepOrder[i]
              /\ C10_SlotsAfter(i) = hooks'[Len(hooks) + i].handle
              /\ C10_SlotsAfter(i) # 0
         /\ \A i \in k..3 : C10_SlotsAfter(i) = C10_Slots(i)
         /\ ret' = FALSE]_vars

\* a second call failed at step 2: the first slot holds the new hook, the
\* other two still hold the hooks of the first call
C10_Witness ==
  /\ installs = 2
  /\ ret = FALSE
  /\ attempts = <<WH_CALLWNDPROC, WH_CALLWNDPROCRET>>
  /\ Len(hooks) = 4
  /\ WIN_PROC_HOOK = hooks[4].handle
  /\ WIN_PROC_RET_HOOK = hooks[2].handle
  /\ GET_MESSAGE_HOOK = hooks[3].handle

\* C11: a call of install_hook returns true exactly when it installed three
\* hooks; then the three are WH_CALLWNDPROC, WH_CALLWNDPROCRET, WH_GETMESSAGE
\* in that order with their own procedures, all for the thread_id of the
\* call and for the module handle in DLL_HANDLE, and the three statics hold
\* their handles.
C11_New(i) == hooks'[Len(hooks) + i]

C11_InstallAll ==
  [][installs' = installs + 1 =>
       /\ ret' = (Len(hooks') = Len(hooks) + 3)
       /\ ret' = TRUE =>
            /\ attempts' = <<WH_CALLWNDPROC, WH_CALLWNDPROCRET, WH_GETMESSAGE>>
            /\ SubSeq(hooks', 1, Len(hooks)) = hooks
            /\ C11_New(1).id = WH_CALLWNDPROC /\ C11_New(1).proc = "win_proc_hook"
            /\ C11_New(2).id = WH_CALLWNDPROCRET /\ C11_New(2).proc = "win_proc_ret_hook"
            /\ C11_New(3).id = WH_GETMESSAGE /\ C11_New(3).proc = "get_message_hook"
            /\ \A i \in 1..3 :
                 /\ C11_New(i).thread = C11_New(1).thread
                 /\ C11_New(i).thread \in ThreadIds
                 /\ C11_New(i).hmod = DLL_HANDLE
                 /\ C11_New(i).handle # 0
            /\ WIN_PROC_HOOK' = C11_New(1).handle
            /\ WIN_PROC_RET_HOOK' = C11_New(2).handle
            /\ GET_MESSAGE_HOOK' = C11_New(3).handle]_vars

\* after a process attach with handle 500, a call that installed all three
C11_Witness ==
  /\ installs = 1
  /\ ret = TRUE
  /\ DLL_HANDLE = 500
  /\ Len(hooks) = 3
  /\ \A i \in 1..3 : hooks[i].hmod = 500 /\ hooks[i].thread = 8
  /\ GET_MESSAGE_HOOK = hooks[3].handle

\* C12 (as claimed): every invocation of a hook callback, whatever the filter
\* code and the payload pointer, calls CallNextHookEx exactly once with its
\* own (n_code, w_param, l_param) and returns; none panics.
C12_AlwaysForwards ==
  call.hook # "none" =>
    /\ call.outcome.kind = "returned"
    /\ call.next = << <<call.n_code, call.w_param, call.l_param>> >>

\* C13: an invocation with a negative filter code forwards without reading
\* the payload, without asking for the window class and without printing;
\* whatever printed was invoked with a non-negative code.
C13_NegativeCodeForwards ==
  /\ (call.hook # "none" /\ call.n_code < 0) =>
        /\ call.derefs = 0
        /\ call.queries = 0
        /\ call.printed = <<>>
        /\ call.next = << <<call.n_code, call.w_param, call.l_param>> >>
        /\ call.outcome.kind = "returned"
  /\ call.printed # <<>> => call.n_code >= 0

\* get_message_hook with a negative code and a null payload
C13_Witness ==
  /\ call.hook = "get_message_hook"
  /\ call.n_code = -1
  /\ call.l_param = NullPtr
  /\ call.outcome = [kind |-> "returned", value |-> 1]

\* C15 (as claimed): the handle of every hook that was installed is held by
\* one of WIN_PROC_HOOK, WIN_PROC_RET_HOOK and GET_MESSAGE_HOOK.
C15_HandlesRetained ==
  \A i \in 1..Len(hooks) :
    hooks[i].handle \in {WIN_PROC_HOOK, WIN_PROC_RET_HOOK, GET_MESSAGE_HOOK}

\* C20: a process-attach notification sets DLL_HANDLE to its handle; every
\* other reason, known or not, leaves DLL_HANDLE as it was; no notification
\* touches the three hook statics or the installed hooks, and each returns
\* TRUE.
C20_Notification(h, r) ==
  DllMain(h, r) =>
    /\ r = DLL_PROCESS_ATTACH => DLL_HANDLE' = h
    /\ r # DLL_PROCESS_ATTACH => DLL_HANDLE' = DLL_HANDLE
    /\ WIN_PROC_HOOK' = WIN_PROC_HOOK
    /\ WIN_PROC_RET_HOOK' = WIN_PROC_RET_HOOK
    /\ GET_MESSAGE_HOOK' = GET_MESSAGE_HOOK
    /\ hooks' = hooks
    /\ dllRet' = BOOL_TRUE

C20_DllMainFrame ==
  [][\A h \in ModuleHandles, r \in Reasons : C20_Notification(h, r)]_vars

\* two notifications after a complete install: the handle of the attach is
\* recorded and the three hooks are still there
C20_Witness ==
  /\ attaches = 2
  /\ dllRet = BOOL_TRUE
  /\ DLL_HANDLE = 501
  /\ Len(hooks) = 3
  /\ hooks[1].hmod = 0
  /\ GET_MESSAGE_HOOK = hooks[3].handle

\* C14 (as claimed): no thread ever waits for the CALLBACKS mutex without a
\* chance of getting it; here, waits for it while holding it.
C14_NoWaitForever ==
  \A p \in Pumps : ~(pc[p] = "blocked" /\ lockHolder = p)

\* a thread inside window_proc's iteration
Iterating(p) == pc[p] \in {"iter", "blocked"}

\* C16: at most one thread is inside the iteration of window_proc, it holds
\* the mutex, only it has invocations of a dispatch in progress, and these
\* are all for the one message it is dispatching.
C16_OneDispatchAtATime ==
  /\ \A p, q \in Pumps : (Iterating(p) /\ Iterating(q)) => p = q
  /\ \A p \in Pumps :
       /\ Iterating(p) => lockHolder = p
       /\ invoked[p] # <<>> => (Iterating(p) /\ lockHolder = p)
       /\ \A i \in 1..Len(invoked[p]) :
            invoked[p][i].args = <<msg[p].message, msg[p].wParam, msg[p].lParam>>

\* one thread has invoked a callback for its message while another waits for
\* the mutex with a message of its own
C16_Witness ==
  \E p, q \in Pumps :
    /\ p # q
    /\ pc[p] = "iter"
    /\ invoked[p] # <<>>
    /\ pc[q] = "lock"

\* C17 (as claimed): a thread that has sent the readiness signal ends only
\* after window_proc has processed WM_DESTROY on it.
C17_ExitOnlyOnDestroy ==
  [][\A p \in Pumps :
       (signalled[p] /\ pc[p] \notin Ended /\ pc'[p] \in Ended) => quit[p]]_vars

\* C18: the list changes only by one entry added at its end, and never while
\* a thread holds the mutex for a dispatch.
C18_AppendOnly ==
  [][CALLBACKS' # CALLBACKS =>
       /\ lockHolder = 0
       /\ lockHolder' = 0
       /\ Len(CALLBACKS') = Len(CALLBACKS) + 1
       /\ SubSeq(CALLBACKS', 1, Len(CALLBACKS)) = CALLBACKS]_vars

\* a dispatch holds the mutex over a list that a subscribe could still extend
C18_Witness ==
  \E p \in Pumps :
    /\ lockHolder = p
    /\ pc[p] = "iter"
    /\ Len(CALLBACKS) = 1
    /\ Len(CALLBACKS) < MaxSubs
    /\ invoked[p] # <<>>

\* C19: a thread goes through RegisterClassW, CreateWindowExW, the store to
\* BACKGROUND_HWND, RegisterDeviceNotificationW, done.send and the loop in
\* this order; it sends the signal once, with the window created, the handle
\* stored and the notification registered, and takes no message from the
\* queue before that.
C19_Rank(s) ==
  CASE s = "unborn" -> 0
    [] s = "regclass" -> 1
    [] s = "create" -> 2
    [] s = "store" -> 3
    [] s = "regdev" -> 4
    [] s = "send" -> 5
    [] OTHER -> 6

C19_Step(p) ==
  /\ (pc'[p] # pc[p] /\ pc'[p] \notin Ended) =>
       /\ C19_Rank(pc'[p]) = IF C19_Rank(pc[p]) = 6 THEN 6 ELSE C19_Rank(pc[p]) + 1
       /\ C19_Rank(pc'[p]) = 3 => (hwnd'[p] # 0 /\ hwnd[p] = 0)
       /\ C19_Rank(pc'[p]) = 4 => (BACKGROUND_HWND' = hwnd[p] /\ hwnd[p] # 0)
       /\ C19_Rank(pc'[p]) = 5 => (notified'[p] /\ ~notified[p])
       /\ (C19_Rank(pc[p]) = 5 /\ C19_Rank(pc'[p]) = 6) =>
            (signalled'[p] /\ ~signalled[p] /\ chan'[p] = 1 /\ notified[p])
  /\ signalled[p] => (signalled'[p] /\ chan'[p] <= chan[p])
  /\ signalled'[p] # signalled[p] => C19_Rank(pc[p]) = 5
  /\ (Len(queue'[p]) < Len(queue[p]) /\ pc'[p] \notin Ended) => signalled[p]

C19_SetupOrder ==
  [][\A p \in Pumps : C19_Step(p)]_vars

\* the loop has taken a message while the caller has not yet taken the signal
C19_Witness ==
  \E p \in Pumps :
    /\ pc[p] = "translate"
    /\ signalled[p]
    /\ chan[p] = 1
    /\ notified[p]
    /\ BACKGROUND_HWND = hwnd[p]

====
